---- MODULE Spec2Model ----
(***************************************************************************)
(* PretrainedWav2Vec2Frontend                                              *)
(* (src/src/fairseq2/models/wav2vec2/pretrained_frontend.py).              *)
(*                                                                         *)
(* The front-end is modelled as an object built once by __init__ and then  *)
(* called through forward.  Tensors are abstracted to their shape          *)
(* (batch, time, feature dim) and to the list of stages that have          *)
(* transformed them; a padding mask is the set of invalid positions of     *)
(* each batch item.  Every call a forward invocation makes to a sub-stage  *)
(* is appended to a call log, with the arguments it was given.             *)
(***************************************************************************)
EXTENDS Integers, Sequences, FiniteSets

VARIABLES pc, args, ctor, frontend, inputs, outcome, frames

vars == <<pc, args, ctor, frontend, inputs, outcome, frames>>

(***************************************************************************)
(* Bounds of the model.                                                    *)
(***************************************************************************)
MaxBatch == 2
MaxTime == 2

\* Feature dimensions the model draws from (the two of the spec's examples).
Dims == {80, 256}

\* Time reductions of the modelled feature extractors.
Strides == {1, 2}

\* Dropout probabilities, in thousandths: the defaults 0.0 and 0.1.
DefaultPostExtractDropoutP == 0
DefaultDropoutP == 100
DefaultLayerNorm == FALSE
Probabilities == {DefaultPostExtractDropoutP, DefaultDropoutP}

(***************************************************************************)
(* Optional[X]: None, or a value.                                          *)
(***************************************************************************)
None == << >>
Some(x) == <<x>>
IsNone(o) == o = None
Get(o) == o[1]

(***************************************************************************)
(* Stages, in the names of the attributes that own them.                   *)
(***************************************************************************)
StageOrder ==
    << "feature_extractor", "to_padding_mask", "post_extract_layer_norm",
       "post_extract_proj", "post_extract_dropout", "pos_encoder",
       "layer_norm", "dropout" >>

Stages == { StageOrder[i] : i \in 1..Len(StageOrder) }

(***************************************************************************)
(* Errors.  The two the front-end raises itself are ValueErrors told apart *)
(* by their message; an error of a collaborator carries the stage that     *)
(* raised it.                                                              *)
(***************************************************************************)
PosEncoderDimError(dim, model_dim) ==
    [ type |-> "ValueError", origin |-> "__init__",
      message |-> "dim of pos_encoder and model_dim must be equal",
      values |-> <<dim, model_dim>> ]

IncrementalEvalError ==
    [ type |-> "ValueError", origin |-> "forward",
      message |-> "does not support incremental evaluation",
      values |-> << >> ]

StageError(stage, why) ==
    [ type |-> "RuntimeError", origin |-> stage, message |-> why,
      values |-> << >> ]

(***************************************************************************)
(* Tensors and the collaborators' numeric contracts.                       *)
(***************************************************************************)
Tensor(b, t, d) == [ batch |-> b, time |-> t, dim |-> d, ops |-> << >> ]

Applied(x, stage) == [ x EXCEPT !.ops = Append(@, stage) ]

\* A collaborator's answer: a value, or the error it raised.
Ok(v) == [ error |-> None, value |-> Some(v) ]
Raised(e) == [ error |-> Some(e), value |-> None ]

\* SequenceFeatureExtractor.__call__: (seqs, seq_lens) -> (seqs, seq_lens),
\* reducing the time dimension and the lengths by the extractor's stride.
ExtractorCall(fe, seqs, seq_lens) ==
    Ok([ seqs |-> [ Applied(seqs, "feature_extractor") EXCEPT
                      !.time = seqs.time \div fe.stride,
                      !.dim = fe.emits ],
         seq_lens |-> IF IsNone(seq_lens) THEN None
                      ELSE Some([ i \in 1..seqs.batch |->
                                    Get(seq_lens)[i] \div fe.stride ]) ])

\* to_padding_mask(seqs, seq_lens): None without lengths; otherwise, for each
\* item, the positions (0-based) at or after the item's length.
ToPaddingMask(seqs, seq_lens) ==
    IF IsNone(seq_lens) THEN Ok(None)
    ELSE Ok(Some([ batch |-> seqs.batch, time |-> seqs.time,
                   invalid |-> [ i \in 1..seqs.batch |->
                       { t \in 0..(seqs.time - 1) : t >= Get(seq_lens)[i] } ] ]))

\* torch.nn.LayerNorm(dim): normalises the trailing axis, which must be dim.
LayerNormCall(stage, ln, seqs) ==
    IF seqs.dim # ln.dim THEN Raised(StageError(stage, "shape mismatch"))
    ELSE Ok(Applied(seqs, stage))

\* fairseq2.nn.Linear(input_dim, output_dim, bias=True).
LinearCall(stage, proj, seqs) ==
    IF seqs.dim # proj.input_dim THEN Raised(StageError(stage, "shape mismatch"))
    ELSE Ok([ Applied(seqs, stage) EXCEPT !.dim = proj.output_dim ])

\* torch.nn.Dropout(p): shape-preserving.
DropoutCall(stage, dp, seqs) == Ok(Applied(seqs, stage))

\* PositionEncoder.__call__(seqs, padding_mask): shape-preserving.
PosEncoderCall(pe, seqs, padding_mask) == Ok(Applied(seqs, "pos_encoder"))

(***************************************************************************)
(* __init__                                                                *)
(***************************************************************************)
\* Lines 69-76: the feature dimension.
FeatureDim(model_dim, feature_extractor) ==
    IF ~IsNone(feature_extractor) THEN Get(feature_extractor).out_dim
    ELSE model_dim

\* Mutation: the test of lines 82-87 inverted.
MakePostExtractProjInverted(feature_dim, model_dim) ==
    IF feature_dim = model_dim
    THEN Some([ input_dim |-> feature_dim, output_dim |-> model_dim, bias |-> TRUE ])
    ELSE None

\* Lines 82-87.
MakePostExtractProj(feature_dim, model_dim) ==
    IF feature_dim # model_dim
    THEN Some([ input_dim |-> feature_dim, output_dim |-> model_dim, bias |-> TRUE ])
    ELSE None

\* Lines 89-92.
MakePostExtractDropout(post_extract_dropout_p) ==
    IF post_extract_dropout_p > 0 THEN Some([ p |-> post_extract_dropout_p ])
    ELSE None

\* Mutation: the test of line 109 with >= for >.
MakeDropoutNonNegative(dropout_p) ==
    IF dropout_p >= 0 THEN Some([ p |-> dropout_p ]) ELSE None

\* Lines 109-112.
MakeDropout(dropout_p) ==
    IF dropout_p > 0 THEN Some([ p |-> dropout_p ]) ELSE None

\* Mutation: the final normalizer built whatever the flag.
MakeLayerNormAlways(layer_norm, model_dim) == Some([ dim |-> model_dim ])

\* Lines 104-107.
MakeLayerNorm(layer_norm, model_dim) ==
    IF layer_norm THEN Some([ dim |-> model_dim ]) ELSE None

\* Mutation: the test of line 95 with > for !=.
PosEncoderRejectedIfLarger(pos_encoder, model_dim) ==
    /\ ~IsNone(pos_encoder)
    /\ Get(pos_encoder).dim > model_dim

\* Lines 94-98: the one validation of the constructor.
PosEncoderRejected(pos_encoder, model_dim) ==
    /\ ~IsNone(pos_encoder)
    /\ Get(pos_encoder).dim # model_dim

\* The constructor: the object it returns, or the error it raises.
NewFrontend(a) ==
    LET feature_dim == FeatureDim(a.model_dim, a.feature_extractor)
    IN  IF PosEncoderRejected(a.pos_encoder, a.model_dim)
        THEN Raised(PosEncoderDimError(Get(a.pos_encoder).dim, a.model_dim))
        ELSE Ok([ model_dim |-> a.model_dim,
                  feature_extractor |-> a.feature_extractor,
                  post_extract_layer_norm |-> Some([ dim |-> feature_dim ]),
                  post_extract_proj |-> MakePostExtractProj(feature_dim, a.model_dim),
                  post_extract_dropout |-> MakePostExtractDropout(a.post_extract_dropout_p),
                  pos_encoder |-> a.pos_encoder,
                  layer_norm |-> MakeLayerNorm(a.layer_norm, a.model_dim),
                  dropout |-> MakeDropout(a.dropout_p) ])

(***************************************************************************)
(* forward                                                                 *)
(*                                                                         *)
(* A frame holds the locals of one invocation (seqs, seq_lens,             *)
(* padding_mask), the object self refers to, the log of the calls made so  *)
(* far and the exception in flight, if any.  Every statement reads the     *)
(* stages off self and hands on the object as it leaves it.  A statement   *)
(* reached with an exception in flight does nothing: Python has already    *)
(* left the function.                                                      *)
(***************************************************************************)
NewFrame(self, seqs, seq_lens) ==
    [ self |-> self, seqs |-> seqs, seq_lens |-> seq_lens,
      padding_mask |-> None, calls |-> << >>, error |-> None ]

\* The call of a collaborator: `fault` names the stage, if any, whose
\* collaborator fails on this invocation for a reason of its own.
Invoke(stage, fault, answer) ==
    IF fault = stage THEN Raised(StageError(stage, "collaborator failure"))
    ELSE answer

Logged(fr, stage, aux) ==
    [ fr EXCEPT !.calls = Append(@, [ stage |-> stage, seqs |-> fr.seqs,
                                      aux |-> aux ]) ]

\* Mutation: the error of a stage swallowed, the sequence left as it was.
BindSeqsSwallowing(fr, stage, aux, r) ==
    IF ~IsNone(r.error) THEN Logged(fr, stage, aux)
    ELSE [ Logged(fr, stage, aux) EXCEPT !.seqs = Get(r.value) ]

\* A stage that maps seqs to seqs: log the call, then bind the result or
\* let the error out.
BindSeqs(fr, stage, aux, r) ==
    IF ~IsNone(r.error) THEN [ Logged(fr, stage, aux) EXCEPT !.error = r.error ]
    ELSE [ Logged(fr, stage, aux) EXCEPT !.seqs = Get(r.value) ]

\* Lines 126-127.
StmtFeatureExtractor(fault, fr) ==
    IF ~IsNone(fr.error) \/ IsNone(fr.self.feature_extractor) THEN fr
    ELSE LET r == Invoke("feature_extractor", fault,
                         ExtractorCall(Get(fr.self.feature_extractor),
                                       fr.seqs, fr.seq_lens))
             lg == Logged(fr, "feature_extractor", fr.seq_lens)
         IN  IF ~IsNone(r.error) THEN [ lg EXCEPT !.error = r.error ]
             ELSE [ lg EXCEPT !.seqs = Get(r.value).seqs,
                              !.seq_lens = Get(r.value).seq_lens ]

\* Line 129.
StmtPaddingMask(fault, fr) ==
    IF ~IsNone(fr.error) THEN fr
    ELSE LET r == Invoke("to_padding_mask", fault,
                         ToPaddingMask(fr.seqs, fr.seq_lens))
             lg == Logged(fr, "to_padding_mask", fr.seq_lens)
         IN  IF ~IsNone(r.error) THEN [ lg EXCEPT !.error = r.error ]
             ELSE [ lg EXCEPT !.padding_mask = Get(r.value) ]

\* Line 131.
StmtPostExtractLayerNorm(fault, fr) ==
    IF ~IsNone(fr.error) THEN fr
    ELSE BindSeqs(fr, "post_extract_layer_norm", None,
                  Invoke("post_extract_layer_norm", fault,
                         LayerNormCall("post_extract_layer_norm",
                                       Get(fr.self.post_extract_layer_norm), fr.seqs)))

\* Lines 133-134.
StmtPostExtractProj(fault, fr) ==
    IF ~IsNone(fr.error) \/ IsNone(fr.self.post_extract_proj) THEN fr
    ELSE BindSeqs(fr, "post_extract_proj", None,
                  Invoke("post_extract_proj", fault,
                         LinearCall("post_extract_proj",
                                    Get(fr.self.post_extract_proj), fr.seqs)))

\* Lines 136-137.
StmtPostExtractDropout(fault, fr) ==
    IF ~IsNone(fr.error) \/ IsNone(fr.self.post_extract_dropout) THEN fr
    ELSE BindSeqs(fr, "post_extract_dropout", None,
                  Invoke("post_extract_dropout", fault,
                         DropoutCall("post_extract_dropout",
                                     Get(fr.self.post_extract_dropout), fr.seqs)))

\* Mutation: the positional encoder called without the mask.
StmtPosEncoderNoMask(fault, fr) ==
    IF ~IsNone(fr.error) \/ IsNone(fr.self.pos_encoder) THEN fr
    ELSE BindSeqs(fr, "pos_encoder", None,
                  Invoke("pos_encoder", fault,
                         PosEncoderCall(Get(fr.self.pos_encoder), fr.seqs, None)))

\* Lines 139-140.
StmtPosEncoder(fault, fr) ==
    IF ~IsNone(fr.error) \/ IsNone(fr.self.pos_encoder) THEN fr
    ELSE BindSeqs(fr, "pos_encoder", fr.padding_mask,
                  Invoke("pos_encoder", fault,
                         PosEncoderCall(Get(fr.self.pos_encoder),
                                        fr.seqs, fr.padding_mask)))

\* Lines 142-143.
StmtLayerNorm(fault, fr) ==
    IF ~IsNone(fr.error) \/ IsNone(fr.self.layer_norm) THEN fr
    ELSE BindSeqs(fr, "layer_norm", None,
                  Invoke("layer_norm", fault,
                         LayerNormCall("layer_norm", Get(fr.self.layer_norm), fr.seqs)))

\* Mutation: the final dropout removed from the object once it has been used.
StmtDropoutOneShot(fault, fr) ==
    IF ~IsNone(fr.error) \/ IsNone(fr.self.dropout) THEN fr
    ELSE [ BindSeqs(fr, "dropout", None,
                    Invoke("dropout", fault,
                           DropoutCall("dropout", Get(fr.self.dropout), fr.seqs)))
           EXCEPT !.self.dropout = None ]

\* Lines 145-146.
StmtDropout(fault, fr) ==
    IF ~IsNone(fr.error) \/ IsNone(fr.self.dropout) THEN fr
    ELSE BindSeqs(fr, "dropout", None,
                  Invoke("dropout", fault,
                         DropoutCall("dropout", Get(fr.self.dropout), fr.seqs)))

\* Lines 121-124: the incremental-evaluation guard.
StmtStateBagGuard(state_bag, fr) ==
    IF ~IsNone(state_bag) THEN [ fr EXCEPT !.error = Some(IncrementalEvalError) ]
    ELSE fr

\* Mutation: the positional encoder applied before the projection.
BodyPosEncoderEarly(fault, fr) ==
    StmtDropout(fault,
     StmtLayerNorm(fault,
      StmtPostExtractDropout(fault,
       StmtPostExtractProj(fault,
        StmtPosEncoder(fault,
         StmtPostExtractLayerNorm(fault,
          StmtPaddingMask(fault,
           StmtFeatureExtractor(fault, fr))))))))

\* Mutation: the mask derived from the caller's arguments, before extraction.
BodyMaskBeforeExtraction(fault, fr) ==
    StmtDropout(fault,
     StmtLayerNorm(fault,
      StmtPosEncoder(fault,
       StmtPostExtractDropout(fault,
        StmtPostExtractProj(fault,
         StmtPostExtractLayerNorm(fault,
          StmtFeatureExtractor(fault,
           StmtPaddingMask(fault, fr))))))))

\* Lines 126-146: the statements of the body, in program order.
Body(fault, fr) ==
    StmtDropout(fault,
     StmtLayerNorm(fault,
      StmtPosEncoder(fault,
       StmtPostExtractDropout(fault,
        StmtPostExtractProj(fault,
         StmtPostExtractLayerNorm(fault,
          StmtPaddingMask(fault,
           StmtFeatureExtractor(fault, fr))))))))

\* Line 148: what the caller gets, the pair (seqs, padding_mask) or the
\* exception.
Finish(fr) ==
    [ calls |-> fr.calls,
      error |-> fr.error,
      returned |-> IF IsNone(fr.error)
                   THEN Some([ seqs |-> fr.seqs, padding_mask |-> fr.padding_mask ])
                   ELSE None ]

\* Mutation: the state handle looked at only after the body has run.
forwardGuardLast(self, seqs, seq_lens, state_bag, fault) ==
    Finish(StmtStateBagGuard(state_bag,
                             Body(fault, NewFrame(self, seqs, seq_lens))))

\* Lines 115-148: the frame of an invocation when it leaves the function.
Run(self, seqs, seq_lens, state_bag, fault) ==
    Body(fault, StmtStateBagGuard(state_bag, NewFrame(self, seqs, seq_lens)))

forward(self, seqs, seq_lens, state_bag, fault) ==
    Finish(Run(self, seqs, seq_lens, state_bag, fault))

\* The statements of forward one at a time, for invocations that overlap:
\* statement 1 is the guard of lines 121-124, statements 2 to 9 are those of
\* lines 126-146.
LastStatement == Len(StageOrder) + 1

StatementAt(k, state_bag, fault, fr) ==
    CASE k = 1 -> StmtStateBagGuard(state_bag, fr)
      [] k = 2 -> StmtFeatureExtractor(fault, fr)
      [] k = 3 -> StmtPaddingMask(fault, fr)
      [] k = 4 -> StmtPostExtractLayerNorm(fault, fr)
      [] k = 5 -> StmtPostExtractProj(fault, fr)
      [] k = 6 -> StmtPostExtractDropout(fault, fr)
      [] k = 7 -> StmtPosEncoder(fault, fr)
      [] k = 8 -> StmtLayerNorm(fault, fr)
      [] k = 9 -> StmtDropout(fault, fr)

(***************************************************************************)
(* Inputs.                                                                 *)
(***************************************************************************)
Extractors ==
    { [ out_dim |-> d, emits |-> e, stride |-> s ] :
        d \in Dims, e \in Dims, s \in Strides }

PosEncoders == { [ dim |-> d ] : d \in Dims }

Optional(S) == { None } \cup { Some(x) : x \in S }

CtorArgs ==
    [ model_dim : Dims,
      feature_extractor : Optional(Extractors),
      pos_encoder : Optional(PosEncoders),
      post_extract_dropout_p : Probabilities,
      layer_norm : BOOLEAN,
      dropout_p : Probabilities ]

SeqLens(b, t) == Optional([ 1..b -> 0..t ])

ForwardInputs ==
    UNION { [ seqs : { Tensor(b, t, d) },
              seq_lens : SeqLens(b, t),
              state_bag : Optional({ "IncrementalStateBag" }),
              fault : Stages \cup { "none" } ] :
            b \in 1..MaxBatch, t \in 1..MaxTime, d \in Dims }

\* The callers whose invocations may overlap.
Callers == { "a", "b" }

\* What the overlapping callers pass: one item of one position, of either
\* dimension, with or without a state handle, the positional encoder's
\* collaborator failing or not.
OverlapInputs ==
    { in \in ForwardInputs :
        /\ in.seqs.batch = 1
        /\ in.seqs.time = 1
        /\ in.seq_lens = Some(<<1>>)
        /\ in.fault \in { "none", "pos_encoder" } }

(***************************************************************************)
(* The state machine.                                                      *)
(***************************************************************************)
Init ==
    /\ pc = "new"
    /\ args = None
    /\ ctor = None
    /\ frontend = None
    /\ inputs = None
    /\ outcome = None
    /\ frames = [ c \in Callers |-> None ]

\* PretrainedWav2Vec2Frontend(...): the object exists only if __init__ returns.
Construct ==
    /\ pc = "new"
    /\ \E a \in CtorArgs :
         LET r == NewFrontend(a)
         IN  /\ args' = Some(a)
             /\ ctor' = r.error
             /\ frontend' = r.value
             /\ pc' = IF IsNone(r.error) THEN "idle" ELSE "failed"
    /\ UNCHANGED <<inputs, outcome, frames>>

\* frontend(seqs, seq_lens, state_bag): one whole invocation of forward.
Forward ==
    /\ pc = "idle"
    /\ \E in \in ForwardInputs :
         /\ inputs' = Some(in)
         /\ outcome' = Some(forward(Get(frontend), in.seqs, in.seq_lens,
                                    in.state_bag, in.fault))
         /\ frontend' = Some(Run(Get(frontend), in.seqs, in.seq_lens,
                                 in.state_bag, in.fault).self)
    /\ pc' = "called"
    /\ UNCHANGED <<args, ctor, frames>>

\* The caller has the result or the exception; the locals of the invocation
\* are gone and the front-end can be called again.
CallerResumes ==
    /\ pc = "called"
    /\ pc' = "idle"
    /\ inputs' = None
    /\ outcome' = None
    /\ UNCHANGED <<args, ctor, frontend, frames>>

Next == Construct \/ Forward \/ CallerResumes

Spec == Init /\ [][Next]_vars

(***************************************************************************)
(* Overlapping invocations.  Several callers share the one object; each    *)
(* runs forward statement by statement, and the statements of different    *)
(* invocations interleave freely.  A statement reads the object through    *)
(* self as it is at that moment and leaves it as the statement leaves it.  *)
(***************************************************************************)
\* Caller c enters forward: a fresh frame, no statement run yet.
Enter(c) ==
    /\ pc = "idle"
    /\ IsNone(frames[c])
    /\ \E in \in OverlapInputs :
         frames' = [ frames EXCEPT ![c] =
                       Some([ in |-> in, at |-> 0,
                              fr |-> NewFrame(Get(frontend), in.seqs, in.seq_lens) ]) ]
    /\ UNCHANGED <<pc, args, ctor, frontend, inputs, outcome>>

\* Caller c runs its next statement; an exception takes it straight out.
Step(c) ==
    /\ pc = "idle"
    /\ ~IsNone(frames[c])
    /\ Get(frames[c]).at < LastStatement
    /\ LET f == Get(frames[c])
           fr == StatementAt(f.at + 1, f.in.state_bag, f.in.fault,
                             [ f.fr EXCEPT !.self = Get(frontend) ])
       IN  /\ frames' = [ frames EXCEPT ![c] =
                            Some([ f EXCEPT !.fr = fr,
                                            !.at = IF IsNone(fr.error)
                                                   THEN f.at + 1
                                                   ELSE LastStatement ]) ]
           /\ frontend' = Some(fr.self)
    /\ UNCHANGED <<pc, args, ctor, inputs, outcome>>

\* Caller c leaves forward with the result or the exception.
Leave(c) ==
    /\ pc = "idle"
    /\ ~IsNone(frames[c])
    /\ Get(frames[c]).at = LastStatement
    /\ frames' = [ frames EXCEPT ![c] = None ]
    /\ UNCHANGED <<pc, args, ctor, frontend, inputs, outcome>>

NextOverlapping ==
    \/ Construct
    \/ \E c \in Callers : Enter(c)
    \/ \E c \in Callers : Step(c)
    \/ \E c \in Callers : Leave(c)

SpecOverlapping == Init /\ [][NextOverlapping]_vars

(***************************************************************************)
(* Vocabulary of the properties.                                           *)
(***************************************************************************)
Built == pc \in { "idle", "called" }
Called == pc = "called"
Args == Get(args)
Self == Get(frontend)
In == Get(inputs)
Out == Get(outcome)
Succeeded == Called /\ IsNone(Out.error)
Returned == Get(Out.returned)

\* Whether the object owns the stage (the mask derivation is a plain function
\* call and is owned by nobody: it always runs).
Present(self, stage) ==
    IF stage = "to_padding_mask" THEN TRUE ELSE ~IsNone(self[stage])

CallStages(calls) == [ i \in 1..Len(calls) |-> calls[i].stage ]

IsPrefix(s, t) == Len(s) <= Len(t) /\ \A i \in 1..Len(s) : s[i] = t[i]

\* The stages of StageOrder the object owns, in that order.
OwnedStages(self) ==
    LET Owned(stage) == Present(self, stage)
    IN  SelectSeq(StageOrder, Owned)

\* Those of them that transform the sequence.
OwnedTransforms(self) ==
    LET Transforms(stage) == stage # "to_padding_mask" /\ Present(self, stage)
    IN  SelectSeq(StageOrder, Transforms)

\* The sequence and lengths right after feature extraction, as the
\* extractor (when there is one) answers on the caller's arguments.
PostExtraction(self, in) ==
    IF IsNone(self.feature_extractor)
    THEN [ seqs |-> in.seqs, seq_lens |-> in.seq_lens ]
    ELSE Get(ExtractorCall(Get(self.feature_extractor),
                           in.seqs, in.seq_lens).value)

(***************************************************************************)
(* C1.  A successful forward call (no incremental-state handle) runs the   *)
(* stages the object owns in the fixed order feature extractor, mask       *)
(* derivation, post-extraction normalizer, projection, post-extraction     *)
(* dropout, positional encoder, final normalizer, final dropout: each      *)
(* owned stage exactly once, each absent stage not at all, and the         *)
(* returned sequence has been transformed by exactly the owned stages, in  *)
(* that order.                                                             *)
(***************************************************************************)
C1_FixedStageOrder ==
    Succeeded =>
        /\ CallStages(Out.calls) = OwnedStages(Self)
        /\ Returned.seqs.ops = OwnedTransforms(Self)

\* A successful call of a front-end that owns every stage, projecting 80 -> 256.
C1_Witness ==
    /\ Succeeded
    /\ Len(Out.calls) = Len(StageOrder)
    /\ Self.post_extract_proj =
         Some([ input_dim |-> 80, output_dim |-> 256, bias |-> TRUE ])

(***************************************************************************)
(* C2.  A forward call given an incremental-state handle fails with the    *)
(* unsupported-operation error before any work: no stage is invoked and    *)
(* nothing is returned, whatever the configuration and the other inputs.   *)
(***************************************************************************)
C2_StateBagRejected ==
    (Called /\ ~IsNone(In.state_bag)) =>
        /\ Out.error = Some(IncrementalEvalError)
        /\ Out.calls = << >>
        /\ IsNone(Out.returned)

\* A rejected call on a front-end with an extractor whose collaborator would
\* have failed had it been reached.
C2_Witness ==
    /\ Called
    /\ ~IsNone(In.state_bag)
    /\ ~IsNone(Self.feature_extractor)
    /\ In.fault = "feature_extractor"
    /\ Out.error = Some(IncrementalEvalError)

(***************************************************************************)
(* C3.  With a positional encoder supplied: if its dim equals model_dim,   *)
(* construction succeeds and the object stores that encoder; if not,       *)
(* construction fails with the configuration error naming both dimensions  *)
(* and yields no object, whatever the other arguments.                     *)
(***************************************************************************)
C3_PosEncoderDimChecked ==
    (pc # "new" /\ ~IsNone(Args.pos_encoder)) =>
        LET dim == Get(Args.pos_encoder).dim
        IN  /\ dim = Args.model_dim =>
                 /\ pc # "failed"
                 /\ IsNone(ctor)
                 /\ ~IsNone(frontend)
                 /\ Self.pos_encoder = Args.pos_encoder
            /\ dim # Args.model_dim =>
                 /\ pc = "failed"
                 /\ ctor = Some(PosEncoderDimError(dim, Args.model_dim))
                 /\ Get(ctor).values = <<dim, Args.model_dim>>
                 /\ IsNone(frontend)

\* A construction refused for an 80-dimensional encoder in a 256-dimensional
\* model, with an extractor, both dropouts and the final normalizer requested.
C3_Witness ==
    /\ pc = "failed"
    /\ Args.model_dim = 256
    /\ Args.pos_encoder = Some([ dim |-> 80 ])
    /\ ~IsNone(Args.feature_extractor)
    /\ Args.post_extract_dropout_p > 0
    /\ Args.dropout_p > 0
    /\ Args.layer_norm
    /\ ~IsNone(ctor)

(***************************************************************************)
(* C4.  On a successful forward call the returned padding mask is absent   *)
(* when no lengths were given; when lengths were given it has the time     *)
(* dimension of the sequence right after feature extraction and marks, for *)
(* each item, exactly the positions at or after the item's length there.   *)
(***************************************************************************)
C4_PaddingMask ==
    Succeeded =>
        LET post == PostExtraction(Self, In)
            mask == Returned.padding_mask
        IN  /\ IsNone(In.seq_lens) => IsNone(mask)
            /\ ~IsNone(In.seq_lens) =>
                 /\ ~IsNone(mask)
                 /\ Get(mask).batch = post.seqs.batch
                 /\ Get(mask).time = post.seqs.time
                 /\ \A i \in 1..post.seqs.batch :
                      \A t \in 0..(In.seqs.time - 1) :
                        (t \in Get(mask).invalid[i]) <=>
                          (t < post.seqs.time /\ t >= Get(post.seq_lens)[i])

\* A successful call through a stride-2 extractor where one item is padded
\* after extraction and another is not.
C4_Witness ==
    /\ Succeeded
    /\ ~IsNone(Self.feature_extractor)
    /\ Get(Self.feature_extractor).stride = 2
    /\ In.seqs.time = 2
    /\ In.seqs.batch = 2
    /\ In.seq_lens = Some(<<2, 1>>)
    /\ Get(Returned.padding_mask).invalid = <<{}, {0}>>

(***************************************************************************)
(* C5.  Without a feature extractor the feature dimension is model_dim and *)
(* there is no projection; and the sequence a successful forward call      *)
(* returns has feature dimension model_dim, with or without an extractor.  *)
(***************************************************************************)
C5_OutputDimIsModelDim ==
    /\ (Built /\ IsNone(Args.feature_extractor)) =>
         /\ FeatureDim(Args.model_dim, Args.feature_extractor) = Args.model_dim
         /\ Get(Self.post_extract_layer_norm).dim = Self.model_dim
         /\ IsNone(Self.post_extract_proj)
    /\ Succeeded => Returned.seqs.dim = Self.model_dim

\* A successful call whose extractor emits 80 features into a 256-dim model.
C5_Witness ==
    /\ Succeeded
    /\ ~IsNone(Self.feature_extractor)
    /\ Get(Self.feature_extractor).out_dim = 80
    /\ Self.model_dim = 256
    /\ Returned.seqs.dim = 256

(***************************************************************************)
(* C6.  After a successful construction the owned stages are exactly those *)
(* the arguments call for: the post-extraction normalizer always; the      *)
(* projection iff feature_dim # model_dim (feature_dim being the           *)
(* extractor's out_dim, or model_dim without an extractor); each dropout   *)
(* iff its probability is positive; the final normalizer iff the           *)
(* layer_norm flag is set; the extractor and the positional encoder iff    *)
(* supplied.  Under the default probabilities and flag the final dropout   *)
(* is owned, the post-extraction dropout and the final normalizer are not. *)
(***************************************************************************)
C6_StagesFollowArguments ==
    Built =>
        LET feature_dim == IF IsNone(Args.feature_extractor) THEN Args.model_dim
                           ELSE Get(Args.feature_extractor).out_dim
        IN  /\ Present(Self, "post_extract_layer_norm")
            /\ Get(Self.post_extract_layer_norm).dim = feature_dim
            /\ Present(Self, "post_extract_proj") <=> feature_dim # Args.model_dim
            /\ Present(Self, "post_extract_proj") =>
                 Get(Self.post_extract_proj) =
                   [ input_dim |-> feature_dim, output_dim |-> Args.model_dim,
                     bias |-> TRUE ]
            /\ Present(Self, "post_extract_dropout") <=>
                 Args.post_extract_dropout_p > 0
            /\ Present(Self, "layer_norm") <=> Args.layer_norm
            /\ Present(Self, "dropout") <=> Args.dropout_p > 0
            /\ Self.feature_extractor = Args.feature_extractor
            /\ Self.pos_encoder = Args.pos_encoder
            /\ ( /\ Args.post_extract_dropout_p = DefaultPostExtractDropoutP
                 /\ Args.layer_norm = DefaultLayerNorm
                 /\ Args.dropout_p = DefaultDropoutP ) =>
                   /\ Present(Self, "dropout")
                   /\ ~Present(Self, "post_extract_dropout")
                   /\ ~Present(Self, "layer_norm")

\* A front-end built with the default probabilities and flag around an
\* extractor that needs a projection.
C6_Witness ==
    /\ Built
    /\ Args.post_extract_dropout_p = DefaultPostExtractDropoutP
    /\ Args.layer_norm = DefaultLayerNorm
    /\ Args.dropout_p = DefaultDropoutP
    /\ Present(Self, "post_extract_proj")
    /\ Present(Self, "dropout")
    /\ ~Present(Self, "post_extract_dropout")

(***************************************************************************)
(* C7.  With every optional stage disabled (no extractor, no projection    *)
(* needed, both dropout probabilities zero, no positional encoder, no      *)
(* final normalizer) a successful forward call makes one transformation,   *)
(* the post-extraction normalizer, once: the sequence returned is the      *)
(* input after that single normalization and nothing else.                 *)
(***************************************************************************)
AllOptionalDisabled(a) ==
    /\ IsNone(a.feature_extractor)
    /\ a.post_extract_dropout_p = 0
    /\ IsNone(a.pos_encoder)
    /\ ~a.layer_norm
    /\ a.dropout_p = 0

C7_OnlyOneNormalization ==
    (Succeeded /\ AllOptionalDisabled(Args)) =>
        /\ CallStages(Out.calls) = << "to_padding_mask", "post_extract_layer_norm" >>
        /\ Out.calls[2].seqs = In.seqs
        /\ Returned.seqs =
             Get(LayerNormCall("post_extract_layer_norm",
                               [ dim |-> Args.model_dim ], In.seqs).value)
        /\ Returned.seqs.ops = << "post_extract_layer_norm" >>

\* The spec's scenario: model_dim 256, a batch of two items, the second padded.
C7_Witness ==
    /\ Succeeded
    /\ AllOptionalDisabled(Args)
    /\ Args.model_dim = 256
    /\ In.seqs.batch = 2
    /\ In.seqs.time = 2
    /\ In.seq_lens = Some(<<2, 1>>)
    /\ Returned.seqs.dim = 256
    /\ Get(Returned.padding_mask).invalid = <<{}, {1}>>

(***************************************************************************)
(* C8.  With an extractor and a positional encoder both owned, the mask is *)
(* derived from the extractor's output sequence and lengths, never the     *)
(* caller's, and before the post-extraction normalizer runs; the           *)
(* positional encoder is handed exactly that mask, and the mask forward    *)
(* returns is that same mask.                                              *)
(***************************************************************************)
C8_MaskFromExtractorOutput ==
    ( /\ Called
      /\ ~IsNone(Self.feature_extractor)
      /\ ~IsNone(Self.pos_encoder) ) =>
        LET post == PostExtraction(Self, In)
            mask == Get(ToPaddingMask(post.seqs, post.seq_lens).value)
            calls == Out.calls
        IN  /\ \A i \in 1..Len(calls) :
                 /\ calls[i].stage = "to_padding_mask" =>
                      /\ calls[i].seqs = post.seqs
                      /\ calls[i].aux = post.seq_lens
                      /\ \A j \in 1..Len(calls) :
                           calls[j].stage = "post_extract_layer_norm" => i < j
                 /\ calls[i].stage = "pos_encoder" => calls[i].aux = mask
            /\ Succeeded =>
                 /\ \E i \in 1..Len(calls) : calls[i].stage = "to_padding_mask"
                 /\ \E i \in 1..Len(calls) : calls[i].stage = "pos_encoder"
                 /\ Returned.padding_mask = mask

\* A successful call where extraction halves the time axis, so that the mask
\* of the extractor's output differs from the mask of the caller's arguments.
C8_Witness ==
    /\ Succeeded
    /\ ~IsNone(Self.feature_extractor)
    /\ ~IsNone(Self.pos_encoder)
    /\ Get(Self.feature_extractor).stride = 2
    /\ ~IsNone(In.seq_lens)
    /\ Returned.padding_mask # Get(ToPaddingMask(In.seqs, In.seq_lens).value)
    /\ \E i \in 1..Len(Out.calls) :
         /\ Out.calls[i].stage = "pos_encoder"
         /\ Out.calls[i].aux = Returned.padding_mask

(***************************************************************************)
(* C9.  Forward calls leave the configuration alone: after any sequence or *)
(* interleaving of calls, returned, rejected for a state handle or failed  *)
(* inside a sub-stage, the object is the one the constructor built from    *)
(* its arguments, with the same stages owned and the same model_dim; and   *)
(* an invocation that has run to its end, whatever ran before it or        *)
(* alongside it, has made the calls and has the result of a lone call on   *)
(* the freshly built object.                                               *)
(***************************************************************************)
C9_ConfigurationFrozen ==
    Built =>
        LET built == Get(NewFrontend(Args).value)
        IN  /\ frontend = Some(built)
            /\ \A stage \in Stages : Present(Self, stage) <=> Present(built, stage)
            /\ Self.model_dim = Args.model_dim
            /\ \A c \in Callers :
                 ~IsNone(frames[c]) =>
                   LET f == Get(frames[c])
                   IN  /\ f.fr.self = built
                       /\ f.at = LastStatement =>
                            Finish(f.fr) = forward(built, f.in.seqs, f.in.seq_lens,
                                                   f.in.state_bag, f.in.fault)

\* Two invocations overlap: one has just failed inside the positional encoder
\* after earlier stages ran, the other is part-way through its statements and
\* has already used a stage of the object.
C9_Witness ==
    /\ Built
    /\ ~IsNone(frames["a"])
    /\ ~IsNone(frames["b"])
    /\ Get(frames["a"]).at = LastStatement
    /\ Get(frames["a"]).fr.error = Some(StageError("pos_encoder", "collaborator failure"))
    /\ Len(Get(frames["a"]).fr.calls) > 2
    /\ Get(frames["b"]).at = 5
    /\ IsNone(Get(frames["b"]).fr.error)
    /\ Len(Get(frames["b"]).fr.calls) >= 2

(***************************************************************************)
(* C10.  An error raised by an owned sub-stage during a forward call is    *)
(* the error the call ends with: the failing stage is the last one         *)
(* invoked, nothing is returned, and the error is the collaborator's own,  *)
(* not the configuration error nor the unsupported-operation error.        *)
(***************************************************************************)
C10_StageErrorPropagates ==
    (Called /\ IsNone(In.state_bag)) =>
        LET calls == Out.calls
            n == Len(calls)
        IN  /\ ~IsNone(Out.error) =>
                 /\ n >= 1
                 /\ Get(Out.error) \in
                      { StageError(calls[n].stage, "collaborator failure"),
                        StageError(calls[n].stage, "shape mismatch") }
                 /\ Get(Out.error) # IncrementalEvalError
                 /\ Get(Out.error).origin \notin { "__init__", "forward" }
                 /\ IsNone(Out.returned)
                 /\ IsPrefix(CallStages(calls), OwnedStages(Self))
            /\ \A i \in 1..n :
                 calls[i].stage = In.fault =>
                   /\ i = n
                   /\ Out.error = Some(StageError(In.fault, "collaborator failure"))
            /\ \A i \in 1..n :
                 ( /\ calls[i].stage \in { "post_extract_layer_norm", "layer_norm" }
                   /\ calls[i].seqs.dim # Get(Self[calls[i].stage]).dim ) =>
                     /\ i = n
                     /\ ~IsNone(Out.error)

\* A call that the post-extraction dropout brought down after the extractor,
\* the normalizer and the projection had run.
C10_Witness ==
    /\ Called
    /\ IsNone(In.state_bag)
    /\ In.fault = "post_extract_dropout"
    /\ Out.error = Some(StageError("post_extract_dropout", "collaborator failure"))
    /\ Len(Out.calls) = 5
    /\ IsNone(Out.returned)

\* A call that the normalizer brought down on a shape mismatch.
C10_WitnessShape ==
    /\ Called
    /\ IsNone(In.state_bag)
    /\ In.fault = "none"
    /\ Out.error = Some(StageError("post_extract_layer_norm", "shape mismatch"))

====
